---- MODULE Spec2Model ----
(***************************************************************************)
(* State-machine model of solid-mcp-poc:                                   *)
(*   - scripts/e2e_openapi_test.py   main()  (REST auth + text2sql retry)  *)
(*   - solid_mcp_tool/tool.py        SolidText2SQLTool._run and helpers    *)
(*   - src/soliddata_mcp_poc/auth.py get_mcp_token                         *)
(* Python strings are TLA+ strings; str.strip, str.lower, startswith and   *)
(* the `in` operator are computed character by character.                  *)
(***************************************************************************)
EXTENDS Integers, Sequences, FiniteSets, TLC

(***************************************************************************)
(* Python values.  Every value is a record whose field t is its type tag.  *)
(***************************************************************************)
PyNone == [t |-> "none"]
PyStr(s) == [t |-> "str", v |-> s]
PyInt(n) == [t |-> "int", v |-> n]
PyList(items) == [t |-> "list", v |-> items]
\* a dict is its items in insertion order: a sequence of <<key, value>>
PyDict(items) == [t |-> "dict", v |-> items]
\* an object that is no str/list/dict: its attributes as <<name, value>>
PyObj(attrs) == [t |-> "obj", v |-> attrs]
\* the outcome of json() on a body that is not JSON
InvalidJson == [t |-> "invalid"]

IsStr(x) == x.t = "str"
IsList(x) == x.t = "list"
IsDict(x) == x.t = "dict"
IsObj(x) == x.t = "obj"

(***************************************************************************)
(* Python string methods.                                                  *)
(***************************************************************************)
UpperAlpha == "ABCDEFGHIJKLMNOPQRSTUVWXYZ"
LowerAlpha == "abcdefghijklmnopqrstuvwxyz"

CharAt(s, i) == SubSeq(s, i, i)

IsSpace(c) == c \in {" ", "\n", "\t"}

LowerChar(c) ==
    IF \E i \in 1..Len(UpperAlpha) : CharAt(UpperAlpha, i) = c
    THEN CharAt(LowerAlpha, CHOOSE i \in 1..Len(UpperAlpha) : CharAt(UpperAlpha, i) = c)
    ELSE c

RECURSIVE Lower(_)
Lower(s) ==
    IF Len(s) = 0 THEN ""
    ELSE LowerChar(CharAt(s, 1)) \o Lower(SubSeq(s, 2, Len(s)))

RECURSIVE LStrip(_)
LStrip(s) ==
    IF Len(s) = 0 THEN ""
    ELSE IF IsSpace(CharAt(s, 1)) THEN LStrip(SubSeq(s, 2, Len(s)))
    ELSE s

RECURSIVE RStrip(_)
RStrip(s) ==
    IF Len(s) = 0 THEN ""
    ELSE IF IsSpace(CharAt(s, Len(s))) THEN RStrip(SubSeq(s, 1, Len(s) - 1))
    ELSE s

Strip(s) == RStrip(LStrip(s))

StartsWith(s, prefix) ==
    /\ Len(s) >= Len(prefix)
    /\ SubSeq(s, 1, Len(prefix)) = prefix

\* sub in s, for strings
Contains(s, sub) ==
    \E i \in 1..(Len(s) + 1) :
        /\ i + Len(sub) - 1 <= Len(s)
        /\ SubSeq(s, i, i + Len(sub) - 1) = sub

\* Python truthiness of a value
Truthy(x) ==
    CASE x.t = "none" -> FALSE
      [] x.t = "str" -> Len(x.v) > 0
      [] x.t = "int" -> x.v # 0
      [] x.t = "list" -> Len(x.v) > 0
      [] x.t = "dict" -> Len(x.v) > 0
      [] OTHER -> TRUE

\* dict.get(key): the value stored under key, None when the key is absent
HasKey(d, key) == \E i \in 1..Len(d.v) : d.v[i][1] = key
DictGet(d, key) ==
    IF HasKey(d, key)
    THEN d.v[CHOOSE i \in 1..Len(d.v) : d.v[i][1] = key][2]
    ELSE PyNone

\* a or b
PyOr(a, b) == IF Truthy(a) THEN a ELSE b

\* os.environ.get(name) or "" ; an unset variable is None
EnvOrEmpty(x) == IF x.t = "str" /\ Len(x.v) > 0 THEN x.v ELSE ""

(***************************************************************************)
(* str() and repr() of a value.                                            *)
(***************************************************************************)
Digits == "0123456789"

RECURSIVE NatStr(_)
NatStr(n) ==
    IF n < 10 THEN CharAt(Digits, n + 1)
    ELSE NatStr(n \div 10) \o CharAt(Digits, (n % 10) + 1)

IntStr(n) == IF n < 0 THEN "-" \o NatStr(0 - n) ELSE NatStr(n)

\* the quote repr() puts around a string
ReprQuote(s) == IF Contains(s, "'") /\ ~Contains(s, "\"") THEN "\"" ELSE "'"

ReprChar(c, quote) ==
    CASE c = "\n" -> "\\n"
      [] c = "\t" -> "\\t"
      [] c = "\\" -> "\\\\"
      [] c = quote -> "\\" \o c
      [] OTHER -> c

RECURSIVE ReprChars(_, _)
ReprChars(s, quote) ==
    IF Len(s) = 0 THEN ""
    ELSE ReprChar(CharAt(s, 1), quote) \o ReprChars(SubSeq(s, 2, Len(s)), quote)

StrRepr(s) == ReprQuote(s) \o ReprChars(s, ReprQuote(s)) \o ReprQuote(s)

\* sep.join(parts)
RECURSIVE Join(_, _)
Join(sep, parts) ==
    IF Len(parts) = 0 THEN ""
    ELSE IF Len(parts) = 1 THEN parts[1]
    ELSE parts[1] \o sep \o Join(sep, Tail(parts))

\* repr(x); an object of a class without __repr__ prints as <object>
RECURSIVE PyRepr(_)
PyRepr(x) ==
    CASE x.t = "none" -> "None"
      [] x.t = "str" -> StrRepr(x.v)
      [] x.t = "int" -> IntStr(x.v)
      [] x.t = "list" -> "[" \o Join(", ", [i \in 1..Len(x.v) |-> PyRepr(x.v[i])]) \o "]"
      [] x.t = "dict" ->
            "{" \o Join(", ", [i \in 1..Len(x.v) |->
                                 StrRepr(x.v[i][1]) \o ": " \o PyRepr(x.v[i][2])]) \o "}"
      [] OTHER -> "<object>"

\* str(x)
PyToStr(x) == IF x.t = "str" THEN x.v ELSE PyRepr(x)

\* hasattr(x, name) and getattr(x, name) for the attributes the code reads
HasAttr(x, name) == x.t = "obj" /\ \E i \in 1..Len(x.v) : x.v[i][1] = name
GetAttr(x, name) == x.v[CHOOSE i \in 1..Len(x.v) : x.v[i][1] = name][2]

(***************************************************************************)
(* solid_mcp_tool/tool.py: the response normalizer.                       *)
(***************************************************************************)
\* a mapping without text not skipped
ItemParts_NoSkip(item) ==
    IF IsDict(item)
    THEN << Strip(PyToStr(DictGet(item, "text"))) >>
    ELSE IF HasAttr(item, "text")
    THEN << Strip(PyToStr(GetAttr(item, "text"))) >>
    ELSE << >>

\* lines 139-145: the text one list item contributes, << >> when none
ItemParts(item) ==
    IF IsDict(item)
    THEN IF DictGet(item, "text") # PyNone
         THEN << Strip(PyToStr(DictGet(item, "text"))) >>
         ELSE << >>
    ELSE IF HasAttr(item, "text")
    THEN << Strip(PyToStr(GetAttr(item, "text"))) >>
    ELSE << >>

RECURSIVE ListParts(_)
ListParts(items) ==
    IF Len(items) = 0 THEN << >>
    ELSE ItemParts(Head(items)) \o ListParts(Tail(items))

\* the value handed back as it is
Stringified_Raw(result) == result

\* line 160
Stringified(result) == PyStr(Strip(PyToStr(result)))

\* any content field followed
ContentFollowed_Any(content) == content # PyNone

\* line 150: the content field that is followed
ContentFollowed(content) == IsList(content)

\* lines 131-160
RECURSIVE extract_mcp_tool_text(_)
extract_mcp_tool_text(result) ==
    IF result = PyNone THEN PyStr("")
    ELSE IF IsStr(result) THEN PyStr(Strip(result.v))
    ELSE IF IsList(result) /\ Len(ListParts(result.v)) > 0
    THEN PyStr(Join("\n", ListParts(result.v)))
    ELSE IF IsDict(result) /\ ContentFollowed(DictGet(result, "content"))
    THEN extract_mcp_tool_text(DictGet(result, "content"))
    ELSE IF IsDict(result) /\ DictGet(result, "text") # PyNone
    THEN extract_mcp_tool_text(DictGet(result, "text"))
    ELSE IF IsDict(result) /\ IsDict(DictGet(result, "result"))
    THEN extract_mcp_tool_text(DictGet(result, "result"))
    ELSE IF HasAttr(result, "content")
    THEN extract_mcp_tool_text(GetAttr(result, "content"))
    ELSE Stringified(result)

(***************************************************************************)
(* Bounds of the model.                                                    *)
(***************************************************************************)
\* largest E2E_RETRY_ATTEMPTS the environment sets (the backoff list has 3
\* entries, so 5 attempts make the last entry repeat)
MaxAttempts == 5
\* longest list handed to the normalizer
MaxLen == 3
\* longest list under a mapping's content field
MaxContentLen == 2
\* deepest nesting of mappings, objects and lists around a value
MaxDepth == 3

(***************************************************************************)
(* Inputs: environment variables and the answers of the remote services.   *)
(***************************************************************************)
\* SOLIDDATA_MANAGEMENT_KEY as the environment holds it (None: unset)
ManagementKeys ==
    { PyNone, PyStr(""), PyStr("  "),
      PyStr("sk_live_abc"), PyStr(" sk_live_abc\n"),
      PyStr("your-key"), PyStr("YOUR-Key"),
      PyStr("your_management_key"), PyStr("Your_Management_Key_Here"),
      PyStr("xHEREx") }

\* SEMANTIC_LAYER_ID as the environment holds it
LayerIds == { PyNone, PyStr("  "), PyStr(" layer-1 ") }

\* token strings the auth endpoint may answer
TokenStrings ==
    { "XYZ", "Bearer XYZ", "bearer  XYZ\n", "BEARER Bearer XYZ ",
      "Bearer ", "", "  " }

\* JSON bodies of the auth endpoint's answer
AuthBodies ==
    { PyStr(s) : s \in TokenStrings }
    \cup { PyDict(<< <<k, PyStr(s)>> >>) :
             k \in {"token", "access_token", "accessToken"},
             s \in {"XYZ", "Bearer XYZ", " bearer XYZ", "Bearer ", " "} }
    \cup { PyDict(<< <<"token", PyStr("")>>, <<"access_token", PyStr("Bearer XYZ")>> >>),
           PyDict(<< <<"token", PyNone>>, <<"accessToken", PyStr("XYZ")>> >>),
           PyDict(<< <<"token", PyInt(7)>> >>),
           PyDict(<< <<"jwt", PyStr("XYZ")>> >>),
           PyDict(<< >>),
           PyList(<< PyStr("XYZ") >>),
           PyList(<< >>),
           PyInt(0), PyInt(7), PyNone, InvalidJson }

AuthStatuses == {200, 401, 500}

\* an answer of the auth endpoint; a body matters only with its status
AuthAnswers ==
    { [status |-> 200, json |-> b] : b \in AuthBodies }
    \cup { [status |-> s, json |-> InvalidJson] : s \in AuthStatuses \ {200} }

(***************************************************************************)
(* scripts/e2e_openapi_test.py                                             *)
(***************************************************************************)
DEFAULT_SEMANTIC_LAYER_ID == "998b655a-75eb-4873-bb1e-3ddd23164065"
E2E_RETRY_BACKOFF == <<5, 15, 30>>
E2E_QUESTION == "How much revenue was generated in 2024 by product category?"
BearerPrefixLen == 7

\* line 62: the key is refused before any request
E2EKeyRefused(key) ==
    \/ Len(key) = 0
    \/ Contains(Lower(key), "your-")
    \/ Contains(Lower(key), "here")

\* the prefix matched in one letter case only
StripBearer_CaseSensitive(token) ==
    IF StartsWith(token, "Bearer ")
    THEN Strip(SubSeq(token, BearerPrefixLen + 1, Len(token)))
    ELSE token

\* lines 91-92 (the same statement in auth.py 65-66 and tool.py 63-64)
StripBearer(token) ==
    IF StartsWith(Lower(token), "bearer ")
    THEN Strip(SubSeq(token, BearerPrefixLen + 1, Len(token)))
    ELSE token

\* lines 79-92: the token read from the auth answer's JSON, or the failure
E2EParseToken(data) ==
    IF ~(IsStr(data) \/ IsDict(data))
    THEN [ok |-> FALSE, err |-> "auth_not_string_or_object"]
    ELSE LET raw == IF IsStr(data) THEN data
                    ELSE PyOr(PyOr(DictGet(data, "token"), DictGet(data, "access_token")),
                              DictGet(data, "accessToken"))
             token == IF IsStr(raw) THEN Strip(raw.v) ELSE ""
         IN IF Len(token) = 0
            THEN [ok |-> FALSE, err |-> "auth_missing_token"]
            ELSE [ok |-> TRUE, token |-> StripBearer(token)]

\* bodies of a 200 answer of the text2sql endpoint, as resp.json() gives them
Text2SqlBodies ==
    { PyDict(<< <<"message", PyStr("SELECT 1")>> >>),
      PyDict(<< <<"error", PyStr("no")>> >>),
      PyDict(<< >>),
      PyList(<< PyStr("message") >>),
      PyList(<< >>),
      PyStr("message"), PyStr("no such word"),
      PyInt(1), PyNone, InvalidJson }

\* one outcome of client.post(url, ...) on the text2sql URL
Text2SqlAnswers ==
    { [kind |-> "response", status |-> 200, text |-> "body", json |-> b] :
        b \in Text2SqlBodies }
    \cup { [kind |-> "response", status |-> s, text |-> "body", json |-> InvalidJson] :
             s \in {404, 503, 401} }
    \cup { [kind |-> "response", status |-> 500, text |-> t, json |-> InvalidJson] :
             t \in {"", "boom"} }
    \cup { [kind |-> k, status |-> 0, text |-> "", json |-> InvalidJson] :
             k \in {"ReadTimeout", "ConnectError"} }

VARIABLES
    prog,       \* the entry point that runs
    pc,         \* its position
    env,        \* the environment variables it reads
    args,       \* the caller's arguments
    key,        \* local: the management key after strip()
    layer_id,   \* local: the semantic layer id
    question,   \* local: the question sent
    data,       \* local: the JSON of the auth answer, None before
    token,      \* local: the bearer token
    attempt,    \* e2e: the loop variable of the retry loop
    resp,       \* e2e: the last text2sql response assigned, None before
    log,        \* the requests, waits and MCP calls made, in order
    pending,    \* tool: what the try block hands to its finally clause
    ret,        \* how the entry point ended
    initialized \* SnowflakeMCPTool._initialized

vars == <<prog, pc, env, args, key, layer_id, question, data, token, attempt, resp, log,
          pending, ret, initialized>>

NoResp == [kind |-> "none", n |-> 0, status |-> 0, text |-> "", json |-> InvalidJson]
Running == [kind |-> "running"]
Exit(code, branch) == [kind |-> "exit", code |-> code, branch |-> branch]
Raise(exc) == [kind |-> "raise", exc |-> exc]
Return(value) == [kind |-> "return", value |-> value]

\* line 56
E2E_RETRY_ATTEMPTS == env.E2E_RETRY_ATTEMPTS

\* the list indexed one entry too far
E2EDelay_OffByOne(a) ==
    E2E_RETRY_BACKOFF[(IF a + 1 < Len(E2E_RETRY_BACKOFF) - 1
                       THEN a + 1 ELSE Len(E2E_RETRY_BACKOFF) - 1) + 1]

\* lines 111 and 116: the wait after the attempt of index a (from 0)
E2EDelay(a) ==
    E2E_RETRY_BACKOFF[(IF a < Len(E2E_RETRY_BACKOFF) - 1
                       THEN a ELSE Len(E2E_RETRY_BACKOFF) - 1) + 1]

\* a wait after every attempt, the last one included
E2EWaits_LastToo(a) == a < E2E_RETRY_ATTEMPTS

\* lines 110 and 115: a wait follows the attempt of index a
E2EWaits(a) == a < E2E_RETRY_ATTEMPTS - 1

\* every server error retried
E2ERetryStatus_Any5xx(status) == status >= 500

\* line 108: the status that keeps the loop going
E2ERetryStatus(status) == status = 503

\* the 404 branch lost
E2EFailure_No404(status, text) ==
    IF status = 500 /\ Len(Strip(text)) = 0 THEN "failed_empty_body" ELSE "failed"

\* lines 130-140: the branch that reports a status other than 200
E2EFailure(status, text) ==
    IF status = 404 THEN "not_exposed"
    ELSE IF status = 500 /\ Len(Strip(text)) = 0 THEN "failed_empty_body"
    ELSE "failed"

\* line 147: "message" in body, or the TypeError of a body without `in`
E2EHasMessage(body) ==
    CASE IsDict(body) -> [ok |-> TRUE, has |-> HasKey(body, "message")]
      [] IsList(body) ->
            [ok |-> TRUE, has |-> \E i \in 1..Len(body.v) : body.v[i] = PyStr("message")]
      [] IsStr(body) -> [ok |-> TRUE, has |-> Contains(body.v, "message")]
      [] OTHER -> [ok |-> FALSE, has |-> FALSE]

\* lines 61-67
E2EStart ==
    /\ prog = "e2e" /\ pc = "start"
    /\ LET k == Strip(EnvOrEmpty(env.SOLIDDATA_MANAGEMENT_KEY))
       IN /\ key' = k
          /\ IF E2EKeyRefused(k)
             THEN /\ ret' = Exit(1, "config")
                  /\ pc' = "done"
                  /\ UNCHANGED <<layer_id, question>>
             ELSE /\ layer_id' = Strip(IF Truthy(env.SEMANTIC_LAYER_ID)
                                       THEN env.SEMANTIC_LAYER_ID.v
                                       ELSE DEFAULT_SEMANTIC_LAYER_ID)
                  /\ question' = E2E_QUESTION
                  /\ pc' = "auth"
                  /\ ret' = ret
    /\ UNCHANGED <<initialized, prog, env, args, pending, data, token, attempt, resp, log>>

\* the answer of a request that got none
NoStatus == 0

\* lines 71-78: the POST to the auth endpoint with the status that came back
AuthPost(k, status) ==
    [ev |-> "auth_post", management_key |-> k, status |-> status]

\* lines 71-79: the auth POST and its answer
E2EAuthPost ==
    /\ prog = "e2e" /\ pc = "auth"
    /\ \/ \E ans \in AuthAnswers :
            /\ log' = Append(log, AuthPost(key, ans.status))
            /\ IF ans.status # 200
               THEN /\ ret' = Exit(1, "auth_failed") /\ pc' = "done" /\ data' = data
               ELSE IF ans.json = InvalidJson
               THEN /\ ret' = Raise("JSONDecodeError") /\ pc' = "done" /\ data' = data
               ELSE /\ data' = ans.json /\ pc' = "parse" /\ ret' = ret
       \/ /\ log' = Append(log, AuthPost(key, NoStatus))
          /\ ret' = Raise("ConnectError") /\ pc' = "done" /\ data' = data
    /\ UNCHANGED <<initialized, prog, env, args, pending, key, layer_id, question, token, attempt, resp>>

\* lines 80-104: the token, the headers and the payload
E2EParse ==
    /\ prog = "e2e" /\ pc = "parse"
    /\ LET r == E2EParseToken(data)
       IN IF r.ok
          THEN /\ token' = r.token
               /\ pc' = IF E2E_RETRY_ATTEMPTS > 0 THEN "loop" ELSE "eval"
               /\ ret' = ret
          ELSE /\ ret' = Exit(1, r.err)
               /\ pc' = "done"
               /\ token' = token
    /\ attempt' = 0
    /\ resp' = NoResp
    /\ UNCHANGED <<initialized, prog, env, args, pending, key, layer_id, question, data, log>>

\* the text2sql request of lines 96-103 and 107
\* with what came back
E2EPost(n, ans) ==
    [ev |-> "post", n |-> n, kind |-> ans.kind, status |-> ans.status,
     Authorization |-> "Bearer " \o token,
     question |-> question, semantic_layer_ids |-> <<layer_id>>]

E2ESleep(delay) == [ev |-> "sleep", delay |-> delay]

\* lines 105-125: one iteration of the retry loop
E2EAttempt ==
    /\ prog = "e2e" /\ pc = "loop"
    /\ \E ans \in Text2SqlAnswers :
         LET sent == Append(log, E2EPost(attempt + 1, ans))
             more == attempt + 1 < E2E_RETRY_ATTEMPTS
         IN CASE ans.kind = "response" /\ ~E2ERetryStatus(ans.status) ->
                    /\ resp' = [kind |-> "response", n |-> attempt + 1,
                                status |-> ans.status, text |-> ans.text, json |-> ans.json]
                    /\ log' = sent
                    /\ pc' = "eval"
                    /\ UNCHANGED <<attempt, ret>>
              [] ans.kind = "response" /\ E2ERetryStatus(ans.status) ->
                    /\ resp' = [kind |-> "response", n |-> attempt + 1,
                                status |-> ans.status, text |-> ans.text, json |-> ans.json]
                    /\ log' = IF E2EWaits(attempt)
                              THEN Append(sent, E2ESleep(E2EDelay(attempt)))
                              ELSE sent
                    /\ attempt' = IF more THEN attempt + 1 ELSE attempt
                    /\ pc' = IF more THEN "loop" ELSE "eval"
                    /\ ret' = ret
              [] ans.kind = "ReadTimeout" ->
                    IF E2EWaits(attempt)
                    THEN /\ log' = Append(sent, E2ESleep(E2EDelay(attempt)))
                         /\ attempt' = IF more THEN attempt + 1 ELSE attempt
                         /\ pc' = IF more THEN "loop" ELSE "eval"
                         /\ UNCHANGED <<resp, ret>>
                    ELSE /\ log' = sent
                         /\ ret' = Exit(1, "timed_out")
                         /\ pc' = "done"
                         /\ UNCHANGED <<resp, attempt>>
              [] OTHER ->
                    /\ log' = sent
                    /\ ret' = Raise(ans.kind)
                    /\ pc' = "done"
                    /\ UNCHANGED <<resp, attempt>>
    /\ UNCHANGED <<initialized, prog, env, args, pending, key, layer_id, question, data, token>>

\* lines 126-152: the response that is left after the loop
E2EEvaluate ==
    /\ prog = "e2e" /\ pc = "eval"
    /\ ret' = IF resp.kind = "none" THEN Exit(1, "no_response")
              ELSE IF resp.status # 200 THEN Exit(1, E2EFailure(resp.status, resp.text))
              ELSE IF resp.json = InvalidJson THEN Exit(1, "invalid_json")
              ELSE IF ~E2EHasMessage(resp.json).ok THEN Raise("TypeError")
              ELSE IF ~E2EHasMessage(resp.json).has THEN Exit(1, "missing_message")
              ELSE Exit(0, "ok")
    /\ pc' = "done"
    /\ UNCHANGED <<initialized, prog, env, args, pending, key, layer_id, question, data, token, attempt, resp, log>>

E2ENext == E2EStart \/ E2EAuthPost \/ E2EParse \/ E2EAttempt \/ E2EEvaluate

\* the state before the entry point `p` runs, in the environment `e`
Fresh(p, e, a) ==
    /\ prog = p /\ pc = "start" /\ env = e /\ args = a
    /\ key = "" /\ layer_id = "" /\ question = "" /\ data = PyNone /\ token = ""
    /\ attempt = 0 /\ resp = NoResp /\ log = << >> /\ pending = Running /\ ret = Running
    /\ initialized = FALSE

\* line 56: E2E_RETRY_ATTEMPTS when the variable is unset
DefaultAttempts == 3

\* an environment for the functions that read none of it
DefaultEnv ==
    [SOLIDDATA_MANAGEMENT_KEY |-> PyStr("sk_live_abc"),
     SEMANTIC_LAYER_ID |-> PyStr("layer-1"),
     E2E_RETRY_ATTEMPTS |-> 3]

\* the environments: every key and layer id with the default attempt count,
\* and every attempt count with one key and layer id
Environments ==
    [SOLIDDATA_MANAGEMENT_KEY : ManagementKeys,
     SEMANTIC_LAYER_ID : LayerIds,
     E2E_RETRY_ATTEMPTS : {DefaultAttempts}]
    \cup [SOLIDDATA_MANAGEMENT_KEY : {PyStr("sk_live_abc")},
          SEMANTIC_LAYER_ID : {PyStr(" layer-1 ")},
          E2E_RETRY_ATTEMPTS : 0..MaxAttempts]

E2EInit == \E e \in Environments : Fresh("e2e", e, PyNone)

SpecE2E == E2EInit /\ [][E2ENext]_vars

(***************************************************************************)
(* Properties of the retry loop of main().                                 *)
(***************************************************************************)
Last(seq) == seq[Len(seq)]
Posts == SelectSeq(log, LAMBDA e : e.ev = "post")
Sleeps == SelectSeq(log, LAMBDA e : e.ev = "sleep")
Delays == [i \in 1..Len(Sleeps) |-> Sleeps[i].delay]
Statuses == [i \in 1..Len(Posts) |-> Posts[i].status]
LoopOver == pc \in {"eval", "done"}

\* the k-th entry of the list 5, 15, 30, the last one repeating
BackoffEntry(k) == IF k = 1 THEN 5 ELSE IF k = 2 THEN 15 ELSE 30

\* C1: the wait before the k-th retry is the k-th entry of the backoff list
\* [5, 15, 30] (the last entry repeating), every retry is preceded by its wait,
\* no wait follows the final attempt, and for 503, 503, 200 with 3 attempts
\* the waits are 5 then 15 and the response evaluated is the one of attempt 3.
C1_BackoffSchedule ==
    prog = "e2e" =>
      /\ \A i \in 1..Len(log) :
            /\ log[i].ev = "sleep" =>
                 /\ i > 1 /\ log[i-1].ev = "post"
                 /\ log[i].delay = BackoffEntry(log[i-1].n)
                 /\ log[i-1].n < E2E_RETRY_ATTEMPTS
            /\ (log[i].ev = "post" /\ log[i].n > 1) => log[i-1].ev = "sleep"
      /\ (LoopOver /\ Len(log) > 0) => Last(log).ev # "sleep"
      /\ (LoopOver /\ E2E_RETRY_ATTEMPTS = 3 /\ Statuses = <<503, 503, 200>>) =>
            /\ Delays = <<5, 15>>
            /\ resp.n = 3 /\ resp.status = 200

C1_Witness ==
    /\ prog = "e2e" /\ pc = "done"
    /\ E2E_RETRY_ATTEMPTS = 5
    /\ Delays = <<5, 15, 30, 30>>
    /\ Len(Posts) = 5

\* C2: at most E2E_RETRY_ATTEMPTS POSTs go to the text2sql URL, and a POST is
\* followed by another one only if it returned 503 or raised a read-timeout.
C2_BoundedRetries ==
    prog = "e2e" =>
      /\ Len(Posts) <= E2E_RETRY_ATTEMPTS
      /\ \A i \in 1..Len(Posts) :
            (i < Len(Posts) \/ pc = "loop") =>
               \/ Posts[i].kind = "response" /\ Posts[i].status = 503
               \/ Posts[i].kind = "ReadTimeout"

C2_Witness ==
    /\ prog = "e2e" /\ pc = "done"
    /\ E2E_RETRY_ATTEMPTS = 3 /\ Len(Posts) = 3
    /\ Posts[1].kind = "ReadTimeout" /\ Posts[2].status = 503
    /\ Posts[3].status = 500

\* C3: a 404 of the text2sql call is followed by no attempt and no wait, is
\* reported by the 'endpoint not exposed' branch, which no other status takes,
\* and the run ends with exit code 1.
C3_NotExposed ==
    prog = "e2e" =>
      /\ \A i \in 1..Len(log) :
            (log[i].ev = "post" /\ log[i].kind = "response" /\ log[i].status = 404) =>
               /\ i = Len(log)
               /\ LoopOver
               /\ resp.n = log[i].n /\ resp.status = 404
               /\ pc = "done" => ret = Exit(1, "not_exposed")
      /\ (pc = "done" /\ ret.kind = "exit" /\ ret.branch = "not_exposed") =>
            /\ resp.status = 404
            /\ Last(log).ev = "post" /\ Last(log).status = 404

C3_Witness ==
    /\ prog = "e2e" /\ pc = "done"
    /\ ret = Exit(1, "not_exposed")
    /\ Statuses = <<503, 404>>
    /\ E2E_RETRY_ATTEMPTS = 4

(***************************************************************************)
(* solid_mcp_tool/tool.py: SolidText2SQLTool._run                          *)
(***************************************************************************)
\* line 36 (auth.py line 23 tests the same two substrings)
KeyLooksPlaceholder(k) ==
    \/ Contains(Lower(k), "your_management_key")
    \/ Contains(Lower(k), "here")

\* the token field taken whatever its type
ToolParseToken_AnyType(d) ==
    IF IsStr(d) THEN [ok |-> TRUE, token |-> StripBearer(Strip(Strip(d.v)))]
    ELSE IF IsDict(d)
    THEN LET t == PyOr(PyOr(DictGet(d, "token"), DictGet(d, "access_token")),
                       DictGet(d, "accessToken"))
         IN IF ~Truthy(t)
            THEN [ok |-> FALSE, err |-> "ValueError"]
            ELSE [ok |-> TRUE, token |-> StripBearer(Strip(PyToStr(t)))]
    ELSE [ok |-> FALSE, err |-> "ValueError"]

\* lines 49-65: the token read from the auth answer's JSON, or the failure
ToolParseToken(d) ==
    IF IsStr(d) THEN [ok |-> TRUE, token |-> StripBearer(Strip(Strip(d.v)))]
    ELSE IF IsDict(d)
    THEN LET t == PyOr(PyOr(DictGet(d, "token"), DictGet(d, "access_token")),
                       DictGet(d, "accessToken"))
         IN IF ~Truthy(t) \/ ~IsStr(t)
            THEN [ok |-> FALSE, err |-> "ValueError"]
            ELSE [ok |-> TRUE, token |-> StripBearer(Strip(t.v))]
    ELSE [ok |-> FALSE, err |-> "ValueError"]

\* lines 76-88
normalize_question(q, kwargs) ==
    IF q # PyNone /\ IsStr(q) /\ Len(Strip(q.v)) > 0 THEN Strip(q.v)
    ELSE IF q # PyNone /\ IsDict(q) /\ DictGet(q, "question") # PyNone
            /\ Len(Strip(PyToStr(DictGet(q, "question")))) > 0
    THEN Strip(PyToStr(DictGet(q, "question")))
    ELSE IF IsDict(kwargs) /\ DictGet(kwargs, "question") # PyNone
            /\ Len(Strip(PyToStr(DictGet(kwargs, "question")))) > 0
    THEN Strip(PyToStr(DictGet(kwargs, "question")))
    ELSE ""

MissingQuestion == PyStr("Error: missing 'question' input.")
MissingLayerId == PyStr("Error: SEMANTIC_LAYER_ID is missing.")

\* the arguments of _run: question and **kwargs
ToolArgs ==
    [question : { PyStr("How many users?"), PyStr("  q  "), PyStr("  "), PyStr(""),
                  PyNone, PyInt(3),
                  PyDict(<< <<"question", PyStr(" dq ")>> >>),
                  PyDict(<< <<"question", PyInt(5)>>, <<"semantic_layer_id", PyStr("evil")>> >>),
                  PyDict(<< <<"semantic_layer_id", PyStr("evil")>> >>) },
     kwargs : { PyDict(<< >>), PyDict(<< <<"semantic_layer_id", PyStr("evil")>> >>) }]

\* what call_tool hands back
McpResults ==
    { PyObj(<< <<"content", PyList(<< PyObj(<< <<"text", PyStr(" SELECT 1 ")>> >>) >>)>> >>),
      PyDict(<< <<"content", PyList(<< PyDict(<< <<"text", PyStr("SELECT 2")>> >>) >>)>> >>),
      PyStr(" SELECT 3\n"),
      PyNone }

\* _run taking a semantic_layer_id keyword of the caller before the environment
ToolRun_CallerLayer ==
    /\ prog = "tool" /\ pc = "start"
    /\ LET q == normalize_question(args.question, args.kwargs)
           given == DictGet(args.kwargs, "semantic_layer_id")
           value == Strip(IF IsStr(given) THEN given.v
                          ELSE EnvOrEmpty(env.SEMANTIC_LAYER_ID))
       IN IF Len(Strip(q)) = 0
          THEN /\ ret' = Return(MissingQuestion) /\ pc' = "done"
               /\ UNCHANGED <<question, layer_id>>
          ELSE IF Len(value) = 0
          THEN /\ ret' = Return(MissingLayerId) /\ pc' = "done"
               /\ question' = q /\ layer_id' = layer_id
          ELSE /\ question' = Strip(q) /\ layer_id' = value
               /\ pc' = "token" /\ ret' = ret
    /\ UNCHANGED <<initialized, prog, env, args, pending, key, data, token, attempt, resp, log>>

\* _run with the script's fallback to the default layer id
ToolRun_DefaultLayer ==
    /\ prog = "tool" /\ pc = "start"
    /\ LET q == normalize_question(args.question, args.kwargs)
           value == Strip(IF Truthy(env.SEMANTIC_LAYER_ID)
                          THEN env.SEMANTIC_LAYER_ID.v
                          ELSE DEFAULT_SEMANTIC_LAYER_ID)
       IN IF Len(Strip(q)) = 0
          THEN /\ ret' = Return(MissingQuestion) /\ pc' = "done"
               /\ UNCHANGED <<question, layer_id>>
          ELSE IF Len(value) = 0
          THEN /\ ret' = Return(MissingLayerId) /\ pc' = "done"
               /\ question' = q /\ layer_id' = layer_id
          ELSE /\ question' = Strip(q) /\ layer_id' = value
               /\ pc' = "token" /\ ret' = ret
    /\ UNCHANGED <<initialized, prog, env, args, pending, key, data, token, attempt, resp, log>>

\* lines 113-121: the question and the layer id, before asyncio.run
ToolRun ==
    /\ prog = "tool" /\ pc = "start"
    /\ LET q == normalize_question(args.question, args.kwargs)
           value == Strip(EnvOrEmpty(env.SEMANTIC_LAYER_ID))
       IN IF Len(Strip(q)) = 0
          THEN /\ ret' = Return(MissingQuestion) /\ pc' = "done"
               /\ UNCHANGED <<question, layer_id>>
          ELSE IF Len(value) = 0
          THEN /\ ret' = Return(MissingLayerId) /\ pc' = "done"
               /\ question' = q /\ layer_id' = layer_id
          ELSE /\ question' = Strip(q) /\ layer_id' = value
               /\ pc' = "token" /\ ret' = ret
    /\ UNCHANGED <<initialized, prog, env, args, pending, key, data, token, attempt, resp, log>>

\* lines 165 and 33-49: the key check, the auth POST and its answer
ToolGetToken ==
    /\ prog = "tool" /\ pc = "token"
    /\ LET k == Strip(EnvOrEmpty(env.SOLIDDATA_MANAGEMENT_KEY))
       IN /\ key' = k
          /\ IF Len(k) = 0 \/ KeyLooksPlaceholder(k)
             THEN /\ ret' = Raise("ValueError") /\ pc' = "done"
                  /\ UNCHANGED <<log, data>>
             ELSE \/ \E ans \in AuthAnswers :
                       /\ log' = Append(log, AuthPost(k, ans.status))
                       /\ IF ans.status # 200
                          THEN /\ ret' = Raise("HTTPStatusError") /\ pc' = "done"
                               /\ data' = data
                          ELSE IF ans.json = InvalidJson
                          THEN /\ ret' = Raise("JSONDecodeError") /\ pc' = "done"
                               /\ data' = data
                          ELSE /\ data' = ans.json /\ pc' = "parse" /\ ret' = ret
                  \/ /\ log' = Append(log, AuthPost(k, NoStatus))
                     /\ ret' = Raise("ConnectError") /\ pc' = "done" /\ data' = data
    /\ UNCHANGED <<initialized, prog, env, args, pending, layer_id, question, token, attempt, resp>>

\* lines 50-65 and 166-172: the token, then the transport and the client
ToolParse ==
    /\ prog = "tool" /\ pc = "parse"
    /\ LET r == ToolParseToken(data)
       IN IF r.ok
          THEN /\ token' = r.token
               /\ log' = Append(log, [ev |-> "client",
                                      Authorization |-> "Bearer " \o r.token])
               /\ pc' = "connect" /\ ret' = ret
          ELSE /\ ret' = Raise(r.err) /\ pc' = "done"
               /\ UNCHANGED <<token, log>>
    /\ UNCHANGED <<initialized, prog, env, args, pending, key, layer_id, question, data, attempt, resp>>

\* connect outside the try block: its failure skips the finally clause
ToolConnect_NoFinally ==
    /\ prog = "tool" /\ pc = "connect"
    /\ \E ok \in BOOLEAN :
         /\ log' = Append(log, [ev |-> "connect", ok |-> ok])
         /\ IF ok THEN pc' = "call" /\ ret' = ret
            ELSE pc' = "done" /\ ret' = Raise("ConnectionError")
    /\ UNCHANGED <<initialized, prog, env, args, pending, key, layer_id, question, data, token, attempt, resp>>

\* line 174: await client.connect()
ToolConnect ==
    /\ prog = "tool" /\ pc = "connect"
    /\ \E ok \in BOOLEAN :
         /\ log' = Append(log, [ev |-> "connect", ok |-> ok])
         /\ IF ok THEN pc' = "call" /\ pending' = pending
            ELSE pc' = "disconnect" /\ pending' = Raise("ConnectionError")
    /\ UNCHANGED <<initialized, prog, env, args, key, layer_id, question, data, token, attempt, resp, ret>>

\* lines 175-182: await client.call_tool(...) and the normalizer
ToolCallTool ==
    /\ prog = "tool" /\ pc = "call"
    /\ \/ \E result \in McpResults :
            /\ log' = Append(log, [ev |-> "call_tool", name |-> "text2sql",
                                   question |-> question,
                                   semantic_layer_id |-> layer_id, ok |-> TRUE])
            /\ pending' = Return(extract_mcp_tool_text(result))
       \/ /\ log' = Append(log, [ev |-> "call_tool", name |-> "text2sql",
                                 question |-> question,
                                 semantic_layer_id |-> layer_id, ok |-> FALSE])
          /\ pending' = Raise("ToolError")
    /\ pc' = "disconnect"
    /\ UNCHANGED <<initialized, prog, env, args, key, layer_id, question, data, token, attempt, resp, ret>>

\* lines 183-184: the finally clause, then what leaves _run (line 122)
ToolDisconnect ==
    /\ prog = "tool" /\ pc = "disconnect"
    /\ \E ok \in BOOLEAN :
         /\ log' = Append(log, [ev |-> "disconnect", ok |-> ok])
         /\ ret' = IF ok THEN pending ELSE Raise("DisconnectError")
    /\ pc' = "done"
    /\ UNCHANGED <<initialized, prog, env, args, pending, key, layer_id, question, data, token, attempt, resp>>

ToolNext ==
    ToolRun \/ ToolGetToken \/ ToolParse \/ ToolConnect \/ ToolCallTool \/ ToolDisconnect

ToolEnvironments ==
    [SOLIDDATA_MANAGEMENT_KEY : ManagementKeys,
     SEMANTIC_LAYER_ID : LayerIds,
     E2E_RETRY_ATTEMPTS : {DefaultAttempts}]

ToolInit == \E e \in ToolEnvironments, a \in ToolArgs : Fresh("tool", e, a)

SpecTool == ToolInit /\ [][ToolNext]_vars

(***************************************************************************)
(* src/soliddata_mcp_poc/auth.py: get_mcp_token                            *)
(***************************************************************************)
\* lines 43-66: the token read from the auth answer's JSON, or the failure
AuthParseToken(d) ==
    IF ~Truthy(d) THEN [ok |-> FALSE, err |-> "ValueError"]
    ELSE IF IsStr(d) THEN [ok |-> TRUE, token |-> StripBearer(Strip(Strip(d.v)))]
    ELSE IF IsDict(d)
    THEN LET t == PyOr(PyOr(DictGet(d, "token"), DictGet(d, "access_token")),
                       DictGet(d, "accessToken"))
         IN IF ~Truthy(t) \/ ~IsStr(t)
            THEN [ok |-> FALSE, err |-> "ValueError"]
            ELSE [ok |-> TRUE, token |-> StripBearer(Strip(t.v))]
    ELSE [ok |-> FALSE, err |-> "ValueError"]

\* the management_key argument of get_mcp_token
AuthArgs == { PyNone, PyStr("sk_param"), PyStr("your-param"), PyStr("HERE") }

\* lines 12-43: the settings, the key checks, the auth POST and its answer
AuthGetToken ==
    /\ prog = "auth" /\ pc = "start"
    /\ IF env.SOLIDDATA_MANAGEMENT_KEY = PyNone
       THEN /\ ret' = Raise("ValidationError") /\ pc' = "done"
            /\ UNCHANGED <<key, log, data>>
       ELSE LET k == PyOr(args, env.SOLIDDATA_MANAGEMENT_KEY).v
            IN /\ key' = k
               /\ IF Len(k) = 0 \/ Len(Strip(k)) = 0 \/ KeyLooksPlaceholder(k)
                  THEN /\ ret' = Raise("ValueError") /\ pc' = "done"
                       /\ UNCHANGED <<log, data>>
                  ELSE \/ \E ans \in AuthAnswers :
                            /\ log' = Append(log, AuthPost(k, ans.status))
                            /\ IF ans.status = 401
                               THEN /\ ret' = Raise("ValueError") /\ pc' = "done"
                                    /\ data' = data
                               ELSE IF ans.status # 200
                               THEN /\ ret' = Raise("HTTPStatusError") /\ pc' = "done"
                                    /\ data' = data
                               ELSE IF ans.json = InvalidJson
                               THEN /\ ret' = Raise("JSONDecodeError") /\ pc' = "done"
                                    /\ data' = data
                               ELSE /\ data' = ans.json /\ pc' = "parse" /\ ret' = ret
                       \/ /\ log' = Append(log, AuthPost(k, NoStatus))
                          /\ ret' = Raise("ConnectError") /\ pc' = "done"
                          /\ data' = data
    /\ UNCHANGED <<initialized, prog, env, args, pending, layer_id, question, token, attempt, resp>>

\* lines 44-69
AuthParse ==
    /\ prog = "auth" /\ pc = "parse"
    /\ LET r == AuthParseToken(data)
       IN IF r.ok
          THEN /\ token' = r.token /\ ret' = Return(PyStr(r.token))
          ELSE /\ token' = token /\ ret' = Raise(r.err)
    /\ pc' = "done"
    /\ UNCHANGED <<initialized, prog, env, args, pending, key, layer_id, question, data, attempt, resp, log>>

AuthNext == AuthGetToken \/ AuthParse

AuthInit == \E e \in ToolEnvironments, a \in AuthArgs : Fresh("auth", e, a)

SpecAuth == AuthInit /\ [][AuthNext]_vars

\* the three entry points of the credential exchange
CredInit == E2EInit \/ ToolInit \/ AuthInit
CredNext == E2ENext \/ ToolNext \/ AuthNext
SpecCred == CredInit /\ [][CredNext]_vars

(***************************************************************************)
(* src/soliddata_mcp_poc/main.py: run, with config.py and crew.py          *)
(***************************************************************************)
\* config.py lines 16-19 and 39-42: the fields of Settings without a default
SettingsValid(e) ==
    /\ IsStr(e.SOLIDDATA_MANAGEMENT_KEY)
    /\ IsStr(e.GEMINI_API_KEY)

\* config.py line 33: the default of Settings.semantic_layer_id
SettingsDefaultLayerId == "851b4156-e0ea-460b-b6f9-cf3f428e95b5"

\* config.py lines 32-36: Settings.semantic_layer_id, the variable as it is
\* or the default of the field
SettingsLayerId(e) ==
    IF IsStr(e.SEMANTIC_LAYER_ID) THEN e.SEMANTIC_LAYER_ID.v
    ELSE SettingsDefaultLayerId

\* crew.py lines 11-26: the parameters of build_crew (there is no **kwargs)
BuildCrewParams ==
    { "mcp_token", "mcp_server_url", "user_question", "gemini_api_key",
      "semantic_layer_id", "model", "snowflake_mcp_server_url",
      "snowflake_database", "snowflake_schema", "snowflake_mcp_server_name",
      "snowflake_access_token", "snowflake_sql_tool_name" }

\* crew.py lines 12-17: the parameters of build_crew without a default
BuildCrewRequired ==
    { "mcp_token", "mcp_server_url", "user_question", "gemini_api_key",
      "semantic_layer_id" }

\* main.py lines 36-48: the keywords run() passes to build_crew
RunCrewKeywords ==
    { "mcp_token", "mcp_server_url", "user_question", "gemini_api_key",
      "semantic_layer_id", "model", "snowflake_account", "snowflake_user",
      "snowflake_password", "snowflake_database", "snowflake_schema",
      "snowflake_warehouse", "snowflake_role" }

\* Python's binding of a keyword-only call: every keyword names a parameter
\* and every parameter without a default is given, else TypeError
CallBinds(keywords, params, required) ==
    /\ keywords \subseteq params
    /\ required \subseteq keywords

\* sys.argv and the line input() reads
RunArgs ==
    [argv : { <<"main.py">>, <<"main.py", "How", "many">>,
              <<"main.py", "">>, <<"main.py", " ">> },
     input : { "", "  ", " top customers? " }]

\* what crew.kickoff() does
KickoffOutcomes == { "result", "RuntimeError", "RuntimeError_mcp_401" }

\* line 16: settings = get_settings()
RunSettings ==
    /\ prog = "run" /\ pc = "start"
    /\ IF SettingsValid(env)
       THEN /\ pc' = "token" /\ ret' = ret
            /\ layer_id' = SettingsLayerId(env)
       ELSE /\ pc' = "done" /\ ret' = Raise("ValidationError")
            /\ layer_id' = layer_id
    /\ UNCHANGED <<initialized, prog, env, args, pending, key, question, data, token, attempt, resp, log>>

\* line 20 with auth.py lines 12-43: get_mcp_token() up to the answer
RunGetToken ==
    /\ prog = "run" /\ pc = "token"
    /\ LET k == env.SOLIDDATA_MANAGEMENT_KEY.v
       IN /\ key' = k
          /\ IF Len(k) = 0 \/ Len(Strip(k)) = 0 \/ KeyLooksPlaceholder(k)
             THEN /\ ret' = Raise("ValueError") /\ pc' = "done"
                  /\ UNCHANGED <<log, data>>
             ELSE \/ \E ans \in AuthAnswers :
                       /\ log' = Append(log, AuthPost(k, ans.status))
                       /\ IF ans.status = 401
                          THEN /\ ret' = Raise("ValueError") /\ pc' = "done"
                               /\ data' = data
                          ELSE IF ans.status # 200
                          THEN /\ ret' = Raise("HTTPStatusError") /\ pc' = "done"
                               /\ data' = data
                          ELSE IF ans.json = InvalidJson
                          THEN /\ ret' = Raise("JSONDecodeError") /\ pc' = "done"
                               /\ data' = data
                          ELSE /\ data' = ans.json /\ pc' = "parse" /\ ret' = ret
                  \/ /\ log' = Append(log, AuthPost(k, NoStatus))
                     /\ ret' = Raise("ConnectError") /\ pc' = "done" /\ data' = data
    /\ UNCHANGED <<initialized, prog, env, args, pending, layer_id, question, token, attempt, resp>>

\* line 20 with auth.py lines 44-69: the token of the answer
RunParse ==
    /\ prog = "run" /\ pc = "parse"
    /\ LET r == AuthParseToken(data)
       IN IF r.ok
          THEN /\ token' = r.token /\ pc' = "question" /\ ret' = ret
          ELSE /\ token' = token /\ pc' = "done" /\ ret' = Raise(r.err)
    /\ UNCHANGED <<initialized, prog, env, args, pending, key, layer_id, question, data, attempt, resp, log>>

\* lines 23-30: the question from the command line or from input()
RunQuestion ==
    /\ prog = "run" /\ pc = "question"
    /\ LET q == IF Len(args.argv) > 1 THEN Join(" ", Tail(args.argv))
                ELSE Strip(args.input)
       IN /\ question' = q
          /\ IF Len(q) = 0
             THEN pc' = "done" /\ ret' = Return(PyNone)
             ELSE pc' = "crew" /\ ret' = ret
    /\ UNCHANGED <<initialized, prog, env, args, pending, key, layer_id, data, token, attempt, resp, log>>

\* lines 35-67: build_crew(...) and, once it has returned, crew.kickoff()
RunCrew ==
    /\ prog = "run" /\ pc = "crew"
    /\ LET call == [ev |-> "build_crew", mcp_token |-> token,
                    user_question |-> question, semantic_layer_id |-> layer_id,
                    ok |-> CallBinds(RunCrewKeywords, BuildCrewParams, BuildCrewRequired)]
       IN IF call.ok
          THEN \E outcome \in KickoffOutcomes :
                 /\ log' = log \o << call, [ev |-> "kickoff", outcome |-> outcome] >>
                 /\ ret' = IF outcome = "result" THEN Return(PyNone)
                           ELSE Raise("RuntimeError")
          ELSE /\ log' = Append(log, call)
               /\ ret' = Raise("TypeError")
    /\ pc' = "done"
    /\ UNCHANGED <<initialized, prog, env, args, pending, key, layer_id, question, data, token, attempt, resp>>

RunNext == RunSettings \/ RunGetToken \/ RunParse \/ RunQuestion \/ RunCrew

\* GEMINI_API_KEY as the environment holds it
GeminiKeys == { PyNone, PyStr("g-key") }

RunEnvironments ==
    [SOLIDDATA_MANAGEMENT_KEY : ManagementKeys,
     SEMANTIC_LAYER_ID : LayerIds,
     GEMINI_API_KEY : GeminiKeys,
     E2E_RETRY_ATTEMPTS : {DefaultAttempts}]

RunInit == \E e \in RunEnvironments, a \in RunArgs : Fresh("run", e, a)

SpecRun == RunInit /\ [][RunNext]_vars

(***************************************************************************)
(* json.dumps of the values the Snowflake tools return.                    *)
(***************************************************************************)
RECURSIVE Pad(_)
Pad(n) == IF n = 0 THEN "" ELSE " " \o Pad(n - 1)

\* json.dumps of None, an int or a str (of characters that need no escape)
JsonScalar(x) ==
    CASE x.t = "none" -> "null"
      [] x.t = "int" -> IntStr(x.v)
      [] OTHER -> "\"" \o x.v \o "\""

\* json.dumps(d) of a dict of scalars, on one line
JsonObjectLine(d) ==
    "{" \o Join(", ", [i \in 1..Len(d.v) |->
                         "\"" \o d.v[i][1] \o "\": " \o JsonScalar(d.v[i][2])]) \o "}"

\* json.dumps(x, indent=2) of a value that starts `at` columns in
RECURSIVE JsonDumps(_, _)
JsonDumps(x, at) ==
    CASE x.t = "dict" ->
           IF Len(x.v) = 0 THEN "{}"
           ELSE "{\n"
                \o Join(",\n", [i \in 1..Len(x.v) |->
                                  Pad(at + 2) \o "\"" \o x.v[i][1] \o "\": "
                                  \o JsonDumps(x.v[i][2], at + 2)])
                \o "\n" \o Pad(at) \o "}"
      [] x.t = "list" ->
           IF Len(x.v) = 0 THEN "[]"
           ELSE "[\n"
                \o Join(",\n", [i \in 1..Len(x.v) |->
                                  Pad(at + 2) \o JsonDumps(x.v[i], at + 2)])
                \o "\n" \o Pad(at) \o "]"
      [] OTHER -> JsonScalar(x)

(***************************************************************************)
(* src/soliddata_mcp_poc/snowflake_connector_tool.py                       *)
(***************************************************************************)
\* largest max_rows a tool is built with
MaxRows == 3
\* largest number of rows a query selects
MaxResultRows == 4

\* dict(zip(columns, row)): a later column of the same name replaces the value
RECURSIVE DictZip(_, _)
DictZip(columns, row) ==
    IF Len(columns) = 0 \/ Len(row) = 0 THEN << >>
    ELSE LET rest == DictZip(SubSeq(columns, 1, Len(columns) - 1),
                             SubSeq(row, 1, Len(row) - 1))
             c == columns[Len(columns)]
             v == row[Len(row)]
         IN IF \E i \in 1..Len(rest) : rest[i][1] = c
            THEN [i \in 1..Len(rest) |-> IF rest[i][1] = c THEN <<c, v>> ELSE rest[i]]
            ELSE Append(rest, <<c, v>>)

\* cursor.fetchmany(size): the first size rows of the result, all when fewer
Fetchmany_All(rows, size) == rows

\* cursor.fetchmany(size): the first size rows of the result, all when fewer
Fetchmany(rows, size) ==
    IF Len(rows) <= size THEN rows ELSE SubSeq(rows, 1, size)

\* the test of line 90 never true at the limit
ReachedLimit_Over(fetched, max_rows) == Len(fetched) > max_rows

\* line 90: len(rows) == self.max_rows
ReachedLimit(fetched, max_rows) == Len(fetched) = max_rows

\* line 91
TruncationNotice(max_rows) ==
    "\n\n[Result truncated at " \o NatStr(max_rows)
    \o " rows. Refine the query (e.g. add LIMIT or filters) for full data.]"

\* lines 86-92: the text returned for the rows of a result
ConnectorOutput(columns, rows, max_rows) ==
    LET fetched == Fetchmany(rows, max_rows)
        result == [i \in 1..Len(fetched) |-> PyDict(DictZip(columns, fetched[i]))]
        out == JsonDumps(PyList(result), 0)
    IN IF ReachedLimit(fetched, max_rows)
       THEN out \o TruncationNotice(max_rows)
       ELSE out

\* cur.description: None, or the names of the columns
Descriptions == { << >>, <<"A">>, <<"A", "B">>, <<"A", "A">> }

\* the rows a query selects: row i holds i, then None for further columns
ResultRows(n, width) ==
    [i \in 1..n |-> [j \in 1..width |-> IF j = 1 THEN PyInt(i) ELSE PyNone]]

\* what the database does with the query
DbOutcomes ==
    { [kind |-> "rows", n |-> n, columns |-> c] :
        n \in 0..MaxResultRows, c \in Descriptions }
    \cup { [kind |-> k, n |-> 0, columns |-> << >>] :
             k \in {"connect_error", "execute_error", "other_error"} }

\* the arguments of _run and the max_rows of the tool
ConnectorArgs ==
    [query : { "", "  ", "SELECT 1", " SELECT A FROM T " },
     max_rows : 0..MaxRows]

\* lines 68-103
ConnectorRun ==
    /\ prog = "connector" /\ pc = "start"
    /\ IF Len(args.query) = 0 \/ Len(Strip(args.query)) = 0
       THEN /\ ret' = Return(PyStr(JsonObjectLine(
                         PyDict(<< <<"error", PyStr("Empty query")>> >>))))
            /\ log' = log
       ELSE \E o \in DbOutcomes :
              CASE o.kind = "rows" ->
                     /\ log' = << [ev |-> "connect", ok |-> TRUE],
                                  [ev |-> "execute", query |-> args.query,
                                   n |-> o.n, columns |-> o.columns],
                                  [ev |-> "close"] >>
                     /\ ret' = Return(PyStr(ConnectorOutput(
                                  o.columns, ResultRows(o.n, Len(o.columns)),
                                  args.max_rows)))
                [] o.kind = "connect_error" ->
                     /\ log' = << [ev |-> "connect", ok |-> FALSE] >>
                     /\ ret' = Return(PyStr(JsonDumps(
                                  PyDict(<< <<"error", PyStr("connection failed")>>,
                                            <<"errno", PyInt(250001)>> >>), 0)))
                [] o.kind = "execute_error" ->
                     /\ log' = << [ev |-> "connect", ok |-> TRUE],
                                  [ev |-> "close"] >>
                     /\ ret' = Return(PyStr(JsonDumps(
                                  PyDict(<< <<"error", PyStr("SQL compilation error")>>,
                                            <<"errno", PyInt(1003)>> >>), 0)))
                [] OTHER ->
                     /\ log' = << [ev |-> "connect", ok |-> TRUE],
                                  [ev |-> "close"] >>
                     /\ ret' = Return(PyStr(JsonDumps(
                                  PyDict(<< <<"error", PyStr("unexpected")>> >>), 0)))
    /\ pc' = "done"
    /\ UNCHANGED <<initialized, prog, env, args, pending, key, layer_id, question, data, token, attempt, resp>>

ConnectorInit == \E a \in ConnectorArgs : Fresh("connector", DefaultEnv, a)

SpecConnector == ConnectorInit /\ [][ConnectorRun]_vars

\* the records in a text json.dumps made of a list of flat objects
CountChar(s, c) == Cardinality({ i \in 1..Len(s) : CharAt(s, i) = c })

\* the query of the run was executed
Executed ==
    /\ prog = "connector" /\ pc = "done"
    /\ \E i \in 1..Len(log) : log[i].ev = "execute"

\* the number of rows the query selected
SelectedRows == SelectSeq(log, LAMBDA e : e.ev = "execute")[1].n

Min(a, b) == IF a <= b THEN a ELSE b

\* C17: for a result of n rows and the limit max_rows the output carries
\* min(n, max_rows) records, and the truncation notice is appended exactly
\* when n >= max_rows.
C17_RowLimitAndNotice ==
    Executed =>
      /\ ret.kind = "return" /\ IsStr(ret.value)
      /\ CountChar(ret.value.v, "{") = Min(SelectedRows, args.max_rows)
      /\ Contains(ret.value.v, "[Result truncated at") <=> SelectedRows >= args.max_rows

C17_Witness ==
    /\ Executed /\ SelectedRows = 3 /\ args.max_rows = 2
    /\ CountChar(ret.value.v, "{") = 2
    /\ Contains(ret.value.v, "\n]\n\n[Result truncated at 2 rows.")

(***************************************************************************)
(* src/soliddata_mcp_poc/snowflake_mcp_tool.py: SnowflakeMCPTool           *)
(***************************************************************************)
\* most calls made on one tool object
MaxCalls == 3

\* `word in x`: a key of a dict, an element of a list, a part of a str;
\* TypeError for a value that is not iterable
PyContains(x, word) ==
    CASE IsDict(x) -> [ok |-> TRUE, has |-> HasKey(x, word)]
      [] IsList(x) -> [ok |-> TRUE, has |-> \E i \in 1..Len(x.v) : x.v[i] = PyStr(word)]
      [] IsStr(x) -> [ok |-> TRUE, has |-> Contains(x.v, word)]
      [] OTHER -> [ok |-> FALSE, has |-> FALSE]

\* the answer to one JSON-RPC request: the body of a 200, or the failure
RpcAnswers(bodies) ==
    { [kind |-> "response", status |-> 200, json |-> b] : b \in bodies }
    \cup { [kind |-> "response", status |-> 500, json |-> b] :
             b \in { InvalidJson, PyDict(<< <<"message", PyStr("boom")>> >>) } }
    \cup { [kind |-> "ConnectionError", status |-> NoStatus, json |-> InvalidJson] }

\* bodies the server may answer to initialize
InitializeBodies ==
    { PyDict(<< <<"result", PyDict(<< <<"protocolVersion", PyStr("2025-06-18")>> >>)>> >>),
      PyDict(<< <<"error", PyDict(<< <<"code", PyInt(1)>> >>)>> >>),
      PyDict(<< >>),
      PyList(<< PyStr("result") >>),
      PyStr("no result"),
      PyInt(0), PyNone, InvalidJson }

\* the initialize request sent by every call
InitializeAsks_Always(flag) == TRUE

\* lines 111-112: _initialize sends its request unless the flag is set
InitializeAsks(flag) == ~flag

\* lines 122-139: the initialize request made the tool initialized
InitializeSucceeds(ans) ==
    /\ ans.kind = "response" /\ ans.status = 200 /\ ans.json # InvalidJson
    /\ PyContains(ans.json, "result").ok
    /\ PyContains(ans.json, "result").has

\* line 189
InitializeFailed == PyStr(JsonObjectLine(
    PyDict(<< <<"error", PyStr("Failed to initialize MCP server")>> >>)))

\* json.dumps({"error": message}, indent=2)
ErrorText(message) ==
    PyStr(JsonDumps(PyDict(<< <<"error", PyStr(message)>> >>), 0))

\* lines 237-238, for the TypeError of `in` and of a subscript
Unexpected(x) ==
    ErrorText("Unexpected error: " \o
        (CASE IsStr(x) -> "string indices must be integers, not 'str'"
           [] IsList(x) -> "list indices must be integers or slices, not str"
           [] x.t = "none" -> "argument of type 'NoneType' is not iterable"
           [] OTHER -> "argument of type 'int' is not iterable"))

\* lines 213-223: what _run returns for result["result"] = r
RunResultReturn(r) ==
    IF ~PyContains(r, "content").ok THEN Unexpected(r)
    ELSE IF PyContains(r, "content").has
    THEN IF ~IsDict(r) THEN Unexpected(r)
         ELSE LET content == DictGet(r, "content")
              IN IF IsList(content) /\ Len(content.v) > 0
                 THEN LET first == content.v[1]
                      IN IF ~PyContains(first, "text").ok THEN Unexpected(first)
                         ELSE IF PyContains(first, "text").has
                         THEN IF IsDict(first) THEN DictGet(first, "text")
                              ELSE Unexpected(first)
                         ELSE PyNone
                 ELSE PyNone
    ELSE PyStr(JsonDumps(r, 0))

\* lines 209-227: what _run returns for the parsed answer `result`
RunBodyReturn(result) ==
    IF ~PyContains(result, "result").ok THEN Unexpected(result)
    ELSE IF PyContains(result, "result").has
    THEN IF ~IsDict(result) THEN Unexpected(result)
         ELSE RunResultReturn(DictGet(result, "result"))
    ELSE IF PyContains(result, "error").has
    THEN IF ~IsDict(result) THEN Unexpected(result)
         ELSE PyStr(JsonDumps(PyDict(<< <<"error", DictGet(result, "error")>> >>), 0))
    ELSE PyStr(JsonDumps(result, 0))

\* lines 202-238: the values _run may return for the answer to tools/call
\* (response.json() of a body that is not JSON raises a RequestException
\* or a ValueError, by the version of requests)
RunReturns(ans) ==
    IF ans.kind # "response"
    THEN { ErrorText("Request error: connection refused") }
    ELSE IF ans.status # 200
    THEN { ErrorText("Request error: 500 Server Error" \o
             (IF ans.json = InvalidJson THEN " - Status: 500"
              ELSE " - " \o JsonDumps(ans.json, 0))) }
    ELSE IF ans.json = InvalidJson
    THEN { ErrorText("Request error: Expecting value"),
           ErrorText("Unexpected error: Expecting value") }
    ELSE { RunBodyReturn(ans.json) }

\* bodies the server may answer to tools/call
ToolsCallContents ==
    { PyList(<< PyDict(<< <<"type", PyStr("text")>>, <<"text", PyStr("A | B")>> >>) >>),
      PyList(<< PyDict(<< <<"type", PyStr("image")>> >>) >>),
      PyList(<< PyDict(<< <<"text", PyInt(5)>> >>) >>),
      PyList(<< PyDict(<< <<"text", PyNone>> >>) >>),
      PyList(<< PyStr("some text") >>),
      PyList(<< PyStr("plain") >>),
      PyList(<< PyInt(1) >>),
      PyList(<< >>),
      PyStr("A | B"),
      PyDict(<< <<"text", PyStr("A | B")>> >>),
      PyNone }

ToolsCallBodies ==
    { PyDict(<< <<"result", PyDict(<< <<"content", c>> >>)>> >>) : c \in ToolsCallContents }
    \cup { PyDict(<< <<"result", r>> >>) :
             r \in { PyDict(<< <<"results", PyList(<< PyStr("hit") >>)>> >>),
                     PyDict(<< <<"isError", PyNone>> >>),
                     PyDict(<< >>),
                     PyStr("content"), PyStr("done"),
                     PyList(<< PyStr("content") >>),
                     PyInt(5), PyNone } }
    \cup { PyDict(<< <<"error", PyDict(<< <<"code", PyInt(1)>> >>)>> >>),
           PyDict(<< <<"id", PyInt(3)>> >>),
           PyDict(<< >>),
           PyList(<< PyStr("result") >>), PyList(<< PyStr("error") >>), PyList(<< >>),
           PyStr("result"), PyStr("error"), PyStr("x"),
           PyInt(0), PyNone, InvalidJson }

\* lines 166-175: what list_tools returns for the answer to tools/list
ListToolsReturn(ans) ==
    IF ans.kind # "response" \/ ans.status # 200 \/ ans.json = InvalidJson
    THEN PyList(<< >>)
    ELSE LET result == ans.json
         IN IF ~PyContains(result, "result").ok THEN PyList(<< >>)
            ELSE IF ~PyContains(result, "result").has THEN PyList(<< >>)
            ELSE IF ~IsDict(result) THEN PyList(<< >>)
            ELSE LET r == DictGet(result, "result")
                 IN IF ~PyContains(r, "tools").ok THEN PyList(<< >>)
                    ELSE IF ~PyContains(r, "tools").has THEN PyList(<< >>)
                    ELSE IF ~IsDict(r) THEN PyList(<< >>)
                    ELSE DictGet(r, "tools")

\* bodies the server may answer to tools/list
ToolsListBodies ==
    { PyDict(<< <<"result", PyDict(<< <<"tools",
          PyList(<< PyDict(<< <<"name", PyStr("sql_exec_tool")>> >>) >>)>> >>)>> >>),
      PyDict(<< <<"result", PyDict(<< <<"tools", PyNone>> >>)>> >>),
      PyDict(<< <<"result", PyDict(<< >>)>> >>),
      PyDict(<< <<"result", PyStr("tools")>> >>),
      PyDict(<< <<"result", PyInt(5)>> >>),
      PyDict(<< <<"error", PyDict(<< <<"code", PyInt(1)>> >>)>> >>),
      PyList(<< PyStr("result") >>),
      PyInt(0), InvalidJson }

\* the tool names an agent calls _run with
SnowflakeToolNames == { "sql_exec_tool", "product-search" }

\* a JSON-RPC request sent to the server's endpoint; name is params.name of
\* tools/call
Rpc(method, name) == [ev |-> "rpc", method |-> method, name |-> name]

\* the calls made on the tool so far
SnowflakeCalls == SelectSeq(log, LAMBDA e : e.ev = "call")

\* the response assigned in a call
RpcResp(ans) ==
    [kind |-> ans.kind, n |-> Len(SnowflakeCalls) + 1, status |-> ans.status,
     text |-> "", json |-> ans.json]

\* lines 177-238: one call of _run(tool_name, arguments)
SnowflakeRun ==
    /\ prog = "snowflake" /\ Len(SnowflakeCalls) < MaxCalls
    /\ \E name \in SnowflakeToolNames, init \in RpcAnswers(InitializeBodies),
          ans \in RpcAnswers(ToolsCallBodies) :
         LET call == [ev |-> "call", method |-> "_run"]
             asked == IF InitializeAsks(initialized)
                      THEN << call, Rpc("initialize", "") >> ELSE << call >>
         IN IF initialized \/ InitializeSucceeds(init)
            THEN /\ initialized' = TRUE
                 /\ log' = log \o asked \o << Rpc("tools/call", name) >>
                 /\ resp' = RpcResp(ans)
                 /\ \E value \in RunReturns(ans) : ret' = Return(value)
            ELSE /\ initialized' = FALSE
                 /\ log' = log \o asked
                 /\ resp' = NoResp
                 /\ ret' = Return(InitializeFailed)
    /\ pc' = "returned"
    /\ UNCHANGED <<prog, env, args, pending, key, layer_id, question, data, token, attempt>>

\* lines 141-175: one call of list_tools()
SnowflakeListTools ==
    /\ prog = "snowflake" /\ Len(SnowflakeCalls) < MaxCalls
    /\ \E init \in RpcAnswers(InitializeBodies), ans \in RpcAnswers(ToolsListBodies) :
         LET call == [ev |-> "call", method |-> "list_tools"]
             asked == IF InitializeAsks(initialized)
                      THEN << call, Rpc("initialize", "") >> ELSE << call >>
         IN IF initialized \/ InitializeSucceeds(init)
            THEN /\ initialized' = TRUE
                 /\ log' = log \o asked \o << Rpc("tools/list", "") >>
                 /\ resp' = RpcResp(ans)
                 /\ ret' = Return(ListToolsReturn(ans))
            ELSE /\ initialized' = FALSE
                 /\ log' = log \o asked
                 /\ resp' = NoResp
                 /\ ret' = Return(PyList(<< >>))
    /\ pc' = "returned"
    /\ UNCHANGED <<prog, env, args, pending, key, layer_id, question, data, token, attempt>>

SnowflakeNext == SnowflakeRun \/ SnowflakeListTools

\* lines 63-91: a tool object just built
SnowflakeInit == Fresh("snowflake", DefaultEnv, PyNone)

SpecSnowflake == SnowflakeInit /\ [][SnowflakeNext]_vars

\* the call that returned last was _run
RunReturned ==
    /\ prog = "snowflake" /\ pc = "returned"
    /\ Last(SnowflakeCalls).method = "_run"

\* C18: _run returns a string for every answer of the server to tools/call
\* and for every request failure; it never returns another value and never
\* raises.
C18_RunReturnsString ==
    RunReturned => (ret.kind = "return" /\ IsStr(ret.value))

(***************************************************************************)
(* The normalizer on its own: every input shape, then one call.            *)
(***************************************************************************)
SeqsUpTo(S, n) == UNION { [1..k -> S] : k \in 0..n }

\* the elements of a content list
Blocks ==
    { PyDict(<< <<"text", PyStr("a")>> >>),
      PyDict(<< <<"text", PyStr(" b\n")>> >>),
      PyDict(<< <<"text", PyNone>> >>),
      PyDict(<< <<"text", PyInt(5)>> >>),
      PyDict(<< <<"not_text", PyStr("x")>> >>),
      PyObj(<< <<"text", PyStr(" c ")>> >>),
      PyObj(<< <<"text", PyNone>> >>),
      PyStr("s") }

ListInputs == { PyList(q) : q \in SeqsUpTo(Blocks, MaxLen) }

Absent == [t |-> "absent"]

ContentValues ==
    { PyList(q) : q \in SeqsUpTo(Blocks, MaxContentLen) }
    \cup { Absent, PyNone, PyStr(" c "), PyDict(<< <<"text", PyStr("in content")>> >>) }
TextValues ==
    { Absent, PyNone, PyStr(" t "), PyInt(5),
      PyDict(<< <<"text", PyStr("in text")>> >>),
      PyList(<< PyDict(<< <<"text", PyStr("t1")>> >>) >>) }
ResultValues ==
    { Absent, PyNone, PyStr("r"), PyDict(<< >>),
      PyDict(<< <<"text", PyStr(" in result ")>> >>),
      PyDict(<< <<"content", PyStr("c2")>>, <<"result", PyDict(<< <<"text", PyStr("rr")>> >>)>> >>),
      PyList(<< PyDict(<< <<"text", PyStr("r1")>> >>) >>) }

\* the items of a mapping, its absent fields left out
Field(name, value) == IF value = Absent THEN << >> ELSE << <<name, value>> >>

DictInputs ==
    { PyDict(Field("content", c) \o Field("text", x) \o Field("result", r)) :
        c \in ContentValues, x \in TextValues, r \in ResultValues }

NestSeeds ==
    { PyNone, PyStr(" s "), PyInt(0), PyDict(<< >>), PyObj(<< >>),
      PyObj(<< <<"text", PyStr("attr")>> >>),
      PyList(<< PyDict(<< <<"text", PyStr("a")>> >>) >>) }

RECURSIVE Nested(_)
Nested(d) ==
    IF d = 0 THEN NestSeeds
    ELSE LET in == Nested(d - 1)
         IN in \cup { PyObj(<< <<"content", x>> >>) : x \in in }
               \cup { PyDict(<< <<"result", x>> >>) : x \in in }
               \cup { PyDict(<< <<"text", x>> >>) : x \in in }
               \cup { PyDict(<< <<"content", x>> >>) : x \in in }
               \cup { PyList(<< x >>) : x \in in }

\* bodies of the REST endpoint's answer (e2e lines 142-152)
RestBodies ==
    { PyDict(<< <<"message", PyStr("SELECT 1")>> >>),
      PyDict(<< <<"message", PyStr("SELECT 2")>>, <<"status", PyStr("ok")>> >>) }

NormalizerInputs == ListInputs \cup DictInputs \cup Nested(MaxDepth) \cup RestBodies

\* one call of _extract_mcp_tool_text(args)
Normalize ==
    /\ prog = "normalize" /\ pc = "start"
    /\ ret' = Return(extract_mcp_tool_text(args))
    /\ pc' = "done"
    /\ UNCHANGED <<initialized, prog, env, args, pending, key, layer_id, question, data, token, attempt, resp, log>>

NormInit == \E r \in NormalizerInputs : Fresh("normalize", DefaultEnv, r)

SpecNorm == NormInit /\ [][Normalize]_vars

Returned == pc = "done" /\ ret.kind = "return"

\* the inputs no rule of the normalizer matches
NoRecognisedShape(x) ==
    \/ x.t \in {"int"}
    \/ IsObj(x) /\ ~HasAttr(x, "content")
    \/ IsDict(x) /\ ~HasKey(x, "content") /\ ~HasKey(x, "text") /\ ~HasKey(x, "result")
    \/ IsList(x) /\ \A i \in 1..Len(x.v) : x.v[i].t \in {"str", "none", "int"}

\* C6: the normalizer returns a string for every input and never raises; an
\* input of no recognised shape gives its stringified form.
C6_Total ==
    (prog = "normalize" /\ pc = "done") =>
      /\ ret.kind = "return"
      /\ ret.value.t = "str"
      /\ NoRecognisedShape(args) => ret.value.v = Strip(PyToStr(args))

C6_Witness ==
    /\ prog = "normalize" /\ Returned
    /\ args = PyObj(<< <<"content", PyDict(<< <<"result", PyObj(<< >>)>> >>)>> >>)
    /\ ret.value = PyStr("{'result': <object>}")

\* C7 as claimed: a mapping gives the normalization of its content field when
\* present, whatever its shape; else of its text field when present; else of
\* its result object.
C7_AnyContent ==
    (prog = "normalize" /\ Returned /\ IsDict(args)) =>
       IF HasKey(args, "content")
       THEN ret.value = extract_mcp_tool_text(DictGet(args, "content"))
       ELSE IF HasKey(args, "text")
       THEN ret.value = extract_mcp_tool_text(DictGet(args, "text"))
       ELSE HasKey(args, "result") =>
               ret.value = extract_mcp_tool_text(DictGet(args, "result"))

\* C7, amended: a mapping gives the normalization of its content field when
\* that is a list; else of its text field when that is present and not None;
\* else of its result field when that is a mapping; else the mapping's own
\* stringified form.
C7_ListContent ==
    (prog = "normalize" /\ Returned /\ IsDict(args)) =>
       LET content == DictGet(args, "content")
           text == DictGet(args, "text")
           inner == DictGet(args, "result")
       IN CASE content.t = "list" ->
                   ret.value = extract_mcp_tool_text(content)
            [] content.t # "list" /\ text.t # "none" ->
                   ret.value = extract_mcp_tool_text(text)
            [] content.t # "list" /\ text.t = "none" /\ inner.t = "dict" ->
                   ret.value = extract_mcp_tool_text(inner)
            [] OTHER -> ret.value = PyStr(Strip(PyRepr(args)))

C7_Witness ==
    /\ prog = "normalize" /\ Returned
    /\ args = PyDict(<< <<"content", PyStr(" c ")>>, <<"text", PyStr(" t ")>> >>)
    /\ ret.value = PyStr("t")

\* the elements of a list that carry a text, and that text
HasText(item) ==
    \/ IsDict(item) /\ HasKey(item, "text") /\ DictGet(item, "text").t # "none"
    \/ IsObj(item) /\ HasAttr(item, "text")
TextValue(item) ==
    IF IsDict(item) THEN DictGet(item, "text") ELSE GetAttr(item, "text")
WithText(items) == SelectSeq(items, HasText)

\* C8 as claimed: a list gives the text values of its elements that have one,
\* in order, joined by newlines; the stringified list when there is none.
C8_RawTexts ==
    (prog = "normalize" /\ Returned /\ IsList(args)) =>
       LET texts == WithText(args.v)
       IN IF Len(texts) > 0
          THEN ret.value = PyStr(Join("\n", [i \in 1..Len(texts) |->
                                               PyToStr(TextValue(texts[i]))]))
          ELSE ret.value = PyStr(Strip(PyRepr(args)))

\* C8, amended: each text value is converted with str() and stripped of its
\* surrounding whitespace before the join.
C8_StrippedTexts ==
    (prog = "normalize" /\ Returned /\ IsList(args)) =>
       LET texts == WithText(args.v)
       IN IF Len(texts) > 0
          THEN ret.value = PyStr(Join("\n", [i \in 1..Len(texts) |->
                                               Strip(PyToStr(TextValue(texts[i])))]))
          ELSE ret.value = PyStr(Strip(PyRepr(args)))

C8_Witness ==
    /\ prog = "normalize" /\ Returned
    /\ args = PyList(<< PyDict(<< <<"text", PyStr("a")>> >>),
                        PyDict(<< <<"not_text", PyStr("x")>> >>),
                        PyDict(<< <<"text", PyStr(" b\n")>> >>) >>)
    /\ ret.value = PyStr("a\nb")

(***************************************************************************)
(* Properties of SolidText2SQLTool._run.                                   *)
(***************************************************************************)
ClientCreated == \E i \in 1..Len(log) : log[i].ev = "client"
McpCalls == SelectSeq(log, LAMBDA e : e.ev \in {"connect", "call_tool", "disconnect"})
McpNames == [i \in 1..Len(McpCalls) |-> McpCalls[i].ev]
Count(name) == Cardinality({ i \in 1..Len(log) : log[i].ev = name })

\* C4: once the MCP client exists the calls are connect, at most one
\* call_tool named text2sql, disconnect, in that order; disconnect has run
\* exactly once when _run is left, also after a failed connect or call_tool;
\* a value is returned only after exactly one call_tool.
C4_ConnectCallDisconnect ==
    prog = "tool" =>
      /\ McpNames \in { << >>, <<"connect">>, <<"connect", "call_tool">>,
                        <<"connect", "disconnect">>,
                        <<"connect", "call_tool", "disconnect">> }
      /\ Len(McpCalls) > 0 => ClientCreated
      /\ \A i \in 1..Len(McpCalls) :
            /\ McpCalls[i].ev = "call_tool" =>
                  McpCalls[i].name = "text2sql" /\ McpCalls[i-1].ok
            /\ (McpCalls[i].ev = "disconnect" /\ McpCalls[i-1].ev = "connect") =>
                  ~McpCalls[i-1].ok
      /\ (pc = "done" /\ ClientCreated) =>
            /\ Count("connect") = 1
            /\ Count("disconnect") = 1
            /\ Last(log).ev = "disconnect"
            /\ ret.kind = "return" =>
                  /\ Count("call_tool") = 1
                  /\ McpCalls[2].ok /\ McpCalls[3].ok

C4_Witness ==
    /\ prog = "tool" /\ pc = "done"
    /\ McpNames = <<"connect", "call_tool", "disconnect">>
    /\ ~McpCalls[2].ok
    /\ ret = Raise("ToolError")

\* C5: every failure of _run reaches the caller as a string; no exception
\* leaves _run.
C5_NoExceptionLeavesRun ==
    (prog = "tool" /\ pc = "done") => (ret.kind = "return" /\ ret.value.t = "str")

(***************************************************************************)
(* Properties of the credential exchange.                                  *)
(***************************************************************************)
\* the management key an entry point works with
EffectiveKey ==
    IF prog = "auth" /\ Truthy(args) THEN args.v
    ELSE EnvOrEmpty(env.SOLIDDATA_MANAGEMENT_KEY)

LooksPlaceholder(k) ==
    \/ Len(k) = 0
    \/ Contains(Lower(k), "your-")
    \/ Contains(Lower(k), "here")

HttpRequests == SelectSeq(log, LAMBDA e : e.ev \in {"auth_post", "post"})

ConfigurationFailure ==
    \/ ret = Exit(1, "config")
    \/ ret.kind = "raise" /\ ret.exc \in {"ValueError", "ValidationError"}

\* the credential exchange has been entered (the tool returns before it
\* when the question or the layer id is missing)
ExchangeEntered == ~(prog = "tool" /\ ret.kind = "return" /\ ~ClientCreated)

\* C9: with a management key that is empty or contains "your-" or "here" in
\* any letter case, each entry point of the credential exchange sends no HTTP
\* request and fails with a configuration error.
C9_PlaceholderKeyRefused ==
    (prog \in {"auth", "tool", "e2e"} /\ LooksPlaceholder(EffectiveKey)) =>
      /\ Len(HttpRequests) = 0
      /\ (pc = "done" /\ ExchangeEntered) => ConfigurationFailure

\* the token value in the auth answer: the string itself, or the first of
\* the fields token, access_token, accessToken that is not empty
AnswerToken ==
    IF IsStr(data) THEN data
    ELSE IF IsDict(data)
    THEN PyOr(PyOr(DictGet(data, "token"), DictGet(data, "access_token")),
              DictGet(data, "accessToken"))
    ELSE PyNone

\* the credential exchange has handed out a token
Exchanged ==
    CASE prog = "e2e" ->
            pc \in {"loop", "eval"} \/ Len(Posts) > 0 \/ ret = Exit(1, "no_response")
      [] prog = "tool" -> ClientCreated
      [] prog = "auth" -> pc = "done" /\ ret.kind = "return"
      [] OTHER -> FALSE

BearerValue == IsStr(AnswerToken) /\ StartsWith(Lower(AnswerToken.v), "bearer ")

\* every Authorization header sent is "Bearer " followed by the token, and
\* get_mcp_token returns the token
TokenUsed ==
    /\ \A i \in 1..Len(log) :
          log[i].ev \in {"post", "client"} => log[i].Authorization = "Bearer " \o token
    /\ prog = "auth" => ret = Return(PyStr(token))

\* C10 as claimed: a token value that starts with "Bearer " in any letter
\* case is returned, and used in the Authorization header, with exactly
\* that one leading prefix removed.
C10_PrefixRemoved ==
    (Exchanged /\ BearerValue) =>
      /\ token = SubSeq(AnswerToken.v, BearerPrefixLen + 1, Len(AnswerToken.v))
      /\ TokenUsed

\* C10, amended: the value is stripped of surrounding whitespace first; when
\* something follows the prefix, that one prefix is removed and the rest is
\* stripped again; a value that is the prefix alone gives the stripped value.
C10_PrefixRemovedAndStripped ==
    (Exchanged /\ BearerValue) =>
      LET t == Strip(AnswerToken.v)
      IN /\ IF Len(t) > BearerPrefixLen
            THEN token = Strip(SubSeq(t, BearerPrefixLen + 1, Len(t)))
            ELSE token = t
         /\ TokenUsed

C10_Witness ==
    /\ prog = "e2e" /\ pc = "done"
    /\ data = PyStr("BEARER Bearer XYZ ")
    /\ token = "Bearer XYZ"
    /\ Len(Posts) > 0 /\ Posts[1].Authorization = "Bearer Bearer XYZ"

\* the status the auth endpoint answered (NoStatus before the request)
AuthStatus ==
    LET posts == SelectSeq(log, LAMBDA e : e.ev = "auth_post")
    IN IF Len(posts) = 0 THEN NoStatus ELSE posts[1].status

\* the auth endpoint answered 200 and the body was parsed as JSON into data
AuthBodyParsed ==
    /\ AuthStatus = 200
    /\ ret # Raise("JSONDecodeError")

\* a JSON object with none of token, access_token, accessToken as a string
NoStringTokenField(d) ==
    /\ IsDict(d)
    /\ \A k \in {"token", "access_token", "accessToken"} : ~IsStr(DictGet(d, k))

\* the entry point ended with the failure of the credential exchange
AuthenticationFailure ==
    /\ pc = "done"
    /\ CASE prog = "e2e" ->
               /\ ret.kind = "exit" /\ ret.code = 1
               /\ ret.branch \in {"auth_failed", "auth_not_string_or_object",
                                  "auth_missing_token"}
         [] prog = "tool" -> ret.kind = "raise" /\ ret.exc \in {"ValueError", "HTTPStatusError"}
         [] prog = "auth" -> ret = Raise("ValueError")
         [] OTHER -> FALSE

\* C11: when the auth endpoint answers 401, or 200 with a JSON object that
\* has none of token / access_token / accessToken as a string, or 200 with a
\* body that is neither a string nor an object, the credential exchange hands
\* out no token and ends with an authentication failure.
C11_AuthAnswerRefused ==
    (\/ AuthStatus = 401
     \/ AuthBodyParsed /\ NoStringTokenField(data)
     \/ AuthBodyParsed /\ ~IsStr(data) /\ ~IsDict(data)) =>
      /\ ~Exchanged
      /\ pc # "parse" => AuthenticationFailure

C11_Witness ==
    /\ prog = "tool" /\ pc = "done"
    /\ AuthStatus = 200
    /\ data = PyDict(<< <<"token", PyInt(7)>> >>)
    /\ ret = Raise("ValueError")

(***************************************************************************)
(* Properties of the semantic layer id.                                    *)
(***************************************************************************)
\* the entry points that lead to a text2sql request
LayerInit == E2EInit \/ ToolInit \/ RunInit
LayerNext == E2ENext \/ ToolNext \/ RunNext
SpecLayer == LayerInit /\ [][LayerNext]_vars

LayerIdAbsent == env.SEMANTIC_LAYER_ID = PyNone

\* nothing has gone to the auth endpoint, the REST endpoint or the MCP server
NoNetworkCall ==
    /\ Len(HttpRequests) = 0
    /\ Len(McpCalls) = 0
    /\ ~ClientCreated

KeyAccepted ==
    CASE prog = "e2e" -> ~E2EKeyRefused(Strip(EnvOrEmpty(env.SOLIDDATA_MANAGEMENT_KEY)))
      [] prog = "run" ->
            /\ SettingsValid(env)
            /\ Len(Strip(env.SOLIDDATA_MANAGEMENT_KEY.v)) > 0
            /\ ~KeyLooksPlaceholder(env.SOLIDDATA_MANAGEMENT_KEY.v)
      [] OTHER -> FALSE

ToolCalls == SelectSeq(log, LAMBDA e : e.ev = "call_tool")

\* the layer id the environment alone determines
ConfiguredLayerId == Strip(EnvOrEmpty(env.SEMANTIC_LAYER_ID))

\* C13: the semantic_layer_id the tool sends in the text2sql call is a
\* function of the SEMANTIC_LAYER_ID configuration value alone, so two runs
\* of _run in the same environment send the same id whatever the question
\* and the keyword arguments (a semantic_layer_id key included) are.
C13_LayerIdFromConfigurationOnly ==
    prog = "tool" =>
      \A i \in 1..Len(ToolCalls) : ToolCalls[i].semantic_layer_id = ConfiguredLayerId

C13_Witness ==
    /\ prog = "tool" /\ pc = "done"
    /\ DictGet(args.kwargs, "semantic_layer_id") = PyStr("evil")
    /\ IsDict(args.question)
    /\ DictGet(args.question, "semantic_layer_id") = PyStr("evil")
    /\ Len(ToolCalls) = 1
    /\ ToolCalls[1].semantic_layer_id = "layer-1"
    /\ ToolCalls[1].question = "5"

\* C14: whenever the REST POST of the script or the call_tool of the tool is
\* issued, the question and the semantic layer id of the request are
\* non-empty strings.
C14_NonEmptyFields ==
    /\ \A i \in 1..Len(Posts) :
          /\ Len(Posts[i].question) > 0
          /\ \A j \in 1..Len(Posts[i].semantic_layer_ids) :
                Len(Posts[i].semantic_layer_ids[j]) > 0
    /\ \A i \in 1..Len(ToolCalls) :
          /\ Len(ToolCalls[i].question) > 0
          /\ Len(ToolCalls[i].semantic_layer_id) > 0

(***************************************************************************)
(* Properties of the REST answer.                                          *)
(***************************************************************************)
\* a REST answer {"message": m, ...} with a string m
RestMessage(x) == IsDict(x) /\ IsStr(DictGet(x, "message"))

\* C15: the normalizer applied to a REST answer of the form {"message": m}
\* gives the message string m.
C15_MessageNormalized ==
    (prog = "normalize" /\ pc = "done" /\ RestMessage(args)) =>
      ret = Return(DictGet(args, "message"))

\* the text2sql answer main() evaluates is HTTP 200
Answered200 == prog = "e2e" /\ pc = "done" /\ resp.kind = "response" /\ resp.status = 200

\* a JSON object that carries a message field
MessageObject(body) == IsDict(body) /\ HasKey(body, "message")

\* C16: when the text2sql call returns HTTP 200 with a body that is not
\* JSON, or whose JSON value is not an object carrying a message field,
\* main() ends with exit code 1 and does not report success.
C16_ProtocolFailure ==
    (Answered200 /\ ~MessageObject(resp.json)) =>
      (ret.kind = "exit" /\ ret.code = 1)

(***************************************************************************)
(* The response left by the retry loop.                                    *)
(***************************************************************************)
\* attempt i got 503 or ran into the read timeout
Retried(i) ==
    \/ Posts[i].kind = "ReadTimeout"
    \/ Posts[i].kind = "response" /\ Posts[i].status = 503

\* C20: the response main() evaluates after the loop is the response of the
\* last attempt made (none when no attempt was made), never the response of
\* an earlier attempt after a later one timed out; and when every attempt
\* got 503 or timed out, or the attempt count is 0, main() ends with exit
\* code 1.
C20_LastResponseEvaluated ==
    prog = "e2e" =>
      /\ pc = "eval" =>
            IF Len(Posts) = 0 THEN resp.kind = "none" /\ E2E_RETRY_ATTEMPTS = 0
            ELSE /\ Last(Posts).kind = "response"
                 /\ resp.kind = "response"
                 /\ resp.n = Len(Posts)
                 /\ resp.status = Last(Posts).status
      /\ (pc = "done" /\ Exchanged /\ \A i \in 1..Len(Posts) : Retried(i)) =>
            (ret.kind = "exit" /\ ret.code = 1)

C20_Witness ==
    /\ prog = "e2e" /\ pc = "eval"
    /\ Len(Posts) = 3
    /\ Posts[1].kind = "response" /\ Posts[1].status = 503
    /\ Posts[2].kind = "ReadTimeout"
    /\ Posts[3].kind = "response" /\ Posts[3].status = 200
    /\ resp.n = 3 /\ resp.status = 200

(***************************************************************************)
(* Properties of run().                                                    *)
(***************************************************************************)
\* the events of run() of one kind, by their place in the log
Places(ev) == { i \in 1..Len(log) : log[i].ev = ev }

\* run() has its token and its question
ReadyForCrew ==
    /\ prog = "run" /\ pc = "done"
    /\ SettingsValid(env)
    /\ AuthStatus = 200 /\ ret # Raise("JSONDecodeError") /\ AuthParseToken(data).ok
    /\ Len(question) > 0

\* C19: run() authenticates, obtains the question, builds the crew and kicks
\* it off, in this order: with valid settings, a successful authentication
\* and a non-empty question build_crew is called successfully and
\* crew.kickoff() is reached; with an empty question run() returns without
\* building the crew.
C19_CrewBuiltAndKickedOff ==
    prog = "run" =>
      /\ \A b \in Places("build_crew") : \E a \in Places("auth_post") : a < b
      /\ \A k \in Places("kickoff") : \E b \in Places("build_crew") : b < k /\ log[b].ok
      /\ ReadyForCrew =>
            /\ \E b \in Places("build_crew") : log[b].ok
            /\ Places("kickoff") # {}
      /\ (pc = "done" /\ ret = Return(PyNone) /\ Len(question) = 0) =>
            Places("build_crew") = {}

(***************************************************************************)
(* Properties of SnowflakeMCPTool._initialize.                             *)
(***************************************************************************)
\* the JSON-RPC methods requested in the step
Requested == { log'[i].method : i \in { j \in (Len(log) + 1)..Len(log') : log'[j].ev = "rpc" } }

\* the method called in the step
Called == log'[Len(log) + 1].method

\* one call on the tool
InitializeStep ==
    /\ initialized => initialized'
    /\ initialized => "initialize" \notin Requested
    /\ ~initialized => "initialize" \in Requested
    /\ ~initialized' =>
          /\ Requested = {"initialize"}
          /\ ret' = IF Called = "_run" THEN Return(InitializeFailed)
                    ELSE Return(PyList(<< >>))

\* C21: over any sequence of _run and list_tools calls on one tool the
\* _initialized flag only changes from False to True; once it is True no
\* initialize request is sent; a call whose initialization fails sends no
\* tools/call or tools/list request and returns the initialization error
\* (an empty list from list_tools), and the next call sends initialize again.
C21_InitializeOnce == [][prog = "snowflake" => InitializeStep]_vars

C21_Witness ==
    /\ prog = "snowflake" /\ initialized
    /\ [i \in 1..Len(log) |-> log[i].method] =
          << "_run", "initialize",
             "list_tools", "initialize", "tools/list",
             "_run", "tools/call" >>
    /\ ret = Return(PyNone)

(***************************************************************************)
(* The token of a successful credential exchange.                          *)
(***************************************************************************)
\* C22: whenever the credential exchange succeeds its token is a non-empty
\* string, for every body of a 200 answer, so no Authorization header is
\* ever "Bearer " followed by nothing.
C22_TokenNonEmpty ==
    /\ (prog \in {"e2e", "tool", "auth"} /\ Exchanged) => Len(token) > 0
    /\ (prog = "auth" /\ pc = "done" /\ ret.kind = "return") =>
          (IsStr(ret.value) /\ Len(ret.value.v) > 0)
    /\ \A i \in 1..Len(log) :
          log[i].ev \in {"post", "client"} => log[i].Authorization # "Bearer "

====
